---- MODULE Spec2Model ----
(***************************************************************************)
(* Model of the silo inventory backend (src/backend/app.py): the silos and *)
(* operations tables, and one action per HTTP handler.  In Spec every      *)
(* request runs from its first query to its commit without another request *)
(* in between (one request at a time).                                     *)
(* The created_at columns and their display format are left out: rows get  *)
(* created_at and id in insertion order, and no property below reads them. *)
(***************************************************************************)
EXTENDS Integers, Sequences, FiniteSets, TLC

\* ---------------------------------------------------------------- bounds
MaxId == 2          \* largest silo id the store hands out
MaxOpId == 2        \* largest operation id the store hands out
MaxNameLen == 2     \* longest raw name a client sends
MaxAmount == 2      \* largest amount a client sends
IntMax == 2         \* largest value of an Integer column (width scaled down)

\* ------------------------------------------------------- values and inputs
None == "<None>"
Chars == {" ", "a"}
Whitespace == {" "}

ALLOWED_CEREALES == {"Soja", "Maiz", "Trigo", "Girasol"}

\* raw request values
NameInputs == UNION {[1..n -> Chars] : n \in 0..MaxNameLen}
AmountInputs == (-1)..MaxAmount
CerealInputs == {"Soja", "Maiz", "", "Avena"}
NameBodies == [name : NameInputs] \cup {[other |-> 0]}
CargarBodies == [amount : AmountInputs, cereal : CerealInputs]
                  \cup [amount : AmountInputs] \cup [cereal : CerealInputs]
DescargarBodies == [amount : AmountInputs] \cup {[other |-> 0]}

\* ------------------------------------------------------------ pure helpers
RECURSIVE lstrip(_)
lstrip(s) ==
  IF s # <<>> /\ Head(s) \in Whitespace THEN lstrip(Tail(s)) ELSE s

RECURSIVE rstrip(_)
rstrip(s) ==
  IF s # <<>> /\ s[Len(s)] \in Whitespace THEN rstrip(SubSeq(s, 1, Len(s) - 1)) ELSE s

strip(s) == rstrip(lstrip(s))

\* the name taken as sent
NameOf_raw(body) == IF "name" \in DOMAIN body THEN body.name ELSE <<>>

\* (body.get("name") or "").strip()
NameOf(body) == strip(IF "name" \in DOMAIN body THEN body.name ELSE <<>>)

\* int(body.get("amount") or 0)
AmountOf(body) == IF "amount" \in DOMAIN body THEN body.amount ELSE 0

\* body.get("cereal")
CerealOf(body) == IF "cereal" \in DOMAIN body THEN body.cereal ELSE None

\* Python truthiness of an optional string
Truthy(x) == x # None /\ x # ""

MaxOf(S) == IF S = {} THEN 0 ELSE CHOOSE m \in S : \A x \in S : x <= m

\* ------------------------------------------------------------------ state
VARIABLES
  silos,   \* table silos: id -> [name, cereal, balance_kg]
  ops,     \* table operations, in insertion order
  last,    \* the last request answered, and its response
  sess,    \* per worker thread: the session of the request it is serving
  backend  \* the store DATABASE_URL selects

vars == <<silos, ops, last, sess, backend>>

Silo(name, cereal, balance_kg) ==
  [name |-> name, cereal |-> cereal, balance_kg |-> balance_kg]

Operation(silo_id, type, amount) ==
  [id |-> MaxOf({o.id : o \in {ops[k] : k \in DOMAIN ops}}) + 1,
   silo_id |-> silo_id, type |-> type, amount |-> amount]

NextSiloId == MaxOf(DOMAIN silos) + 1

\* worker threads serving requests, and the session of a thread between
\* requests
NumThreads == 2
Threads == 1..NumThreads
Idle == [pc |-> "idle"]

\* get_database_url(): the SQLite file unless DATABASE_URL names PostgreSQL
Backends == {"sqlite", "postgresql"}

\* ------------------------------------------------------------- responses
MsgNameRequired == <<"El nombre es obligatorio.">>
MsgNewNameRequired == <<"El nuevo nombre es obligatorio.">>
MsgDuplicate == <<"Ya existe un silo con ese nombre.">>
MsgNotFound == <<"Silo no encontrado.">>
MsgAmount == <<"La cantidad debe ser mayor a 0.">>
MsgCereal == <<"Debe seleccionar el cereal (Soja, Maiz, Trigo, Girasol).">>
MsgMismatch(c) == <<"El silo ya almacena ", c, ". No puede cambiarse.">>
MsgStock == <<"No hay suficiente stock en el silo.">>
MsgUnhandled == <<"Internal Server Error">>

Response(op, silo_id, body, status, error, data) ==
  [op |-> op, silo_id |-> silo_id, body |-> body,
   status |-> status, error |-> error, data |-> data]

\* the error returned without its status code
Fail_noStatus(op, silo_id, body, status, error) ==
  /\ last' = Response(op, silo_id, body, 200, error, <<>>)
  /\ UNCHANGED <<silos, ops, sess, backend>>

\* a request that returns an error: nothing was committed
Fail(op, silo_id, body, status, error) ==
  /\ last' = Response(op, silo_id, body, status, error, <<>>)
  /\ UNCHANGED <<silos, ops, sess, backend>>

\* -------------------------------------------------- storage constraints
\* the column declared without unique=True
UniqueViolated_off(tbl) == FALSE

\* name = Column(String(100), unique=True)
UniqueViolated(tbl) ==
  \E i, j \in DOMAIN tbl : i # j /\ tbl[i].name = tbl[j].name

\* CheckConstraint("balance_kg >= 0")
balance_non_negative(tbl) == \A i \in DOMAIN tbl : tbl[i].balance_kg >= 0

\* Integer columns have a fixed width
IntegerOverflow(tbl, log) ==
  \/ \E i \in DOMAIN tbl : tbl[i].balance_kg > IntMax
  \/ \E k \in DOMAIN log : log[k].amount > IntMax

Init ==
  /\ silos = <<>>
  /\ ops = <<>>
  /\ last = Response("start", 0, [other |-> 0], 200, <<>>, <<>>)
  /\ sess = [t \in Threads |-> Idle]
  /\ backend = "sqlite"

\* ---------------------------------------------------------------- handlers
health ==
  /\ last' = Response("health", 0, [other |-> 0], 200, <<>>, [status |-> "ok"])
  /\ UNCHANGED <<silos, ops, sess, backend>>

create_silo(body) ==
  LET name == NameOf(body)
      id == NextSiloId
      tbl == [i \in DOMAIN silos \cup {id} |->
                IF i = id THEN Silo(name, None, 0) ELSE silos[i]]
  IN IF name = <<>> THEN Fail("create_silo", 0, body, 400, MsgNameRequired)
     ELSE IF UniqueViolated(tbl) THEN Fail("create_silo", 0, body, 409, MsgDuplicate)
     ELSE /\ id <= MaxId
          /\ silos' = tbl
          /\ last' = Response("create_silo", 0, body, 201, <<>>, [id |-> id])
          /\ UNCHANGED <<ops, sess, backend>>

\* new_name is taken from the body before the silo is looked up
rename_silo(silo_id, body) ==
  LET new_name == NameOf(body)
  IN IF new_name = <<>> THEN Fail("rename_silo", silo_id, body, 400, MsgNewNameRequired)
     ELSE IF silo_id \notin DOMAIN silos
       THEN Fail("rename_silo", silo_id, body, 404, MsgNotFound)
     ELSE LET tbl == [silos EXCEPT ![silo_id].name = new_name]
          IN IF UniqueViolated(tbl)
               THEN Fail("rename_silo", silo_id, body, 409, MsgDuplicate)
             ELSE /\ silos' = tbl
                  /\ last' = Response("rename_silo", silo_id, body, 200, <<>>, <<>>)
                  /\ UNCHANGED <<ops, sess, backend>>

\* the relationship declared without the cascade
CascadeDelete_off(log, silo_id) == log

\* relationship(..., cascade="all, delete") / ondelete="CASCADE"
CascadeDelete(log, silo_id) == SelectSeq(log, LAMBDA o : o.silo_id # silo_id)

delete_silo(silo_id) ==
  IF silo_id \notin DOMAIN silos
    THEN Fail("delete_silo", silo_id, [other |-> 0], 404, MsgNotFound)
  ELSE /\ silos' = [i \in DOMAIN silos \ {silo_id} |-> silos[i]]
       /\ ops' = CascadeDelete(ops, silo_id)
       /\ last' = Response("delete_silo", silo_id, [other |-> 0], 200, <<>>, <<>>)
       /\ UNCHANGED <<sess, backend>>

\* the silo taken for fresh whenever it is empty
IsFresh_empty(s) == s.balance_kg = 0

\* s.balance_kg == 0 and (s.cereal is None)
IsFresh(s) == s.balance_kg = 0 /\ s.cereal = None

\* the empty cereal let through
CerealRejected_emptyPasses(cereal) ==
  cereal = None \/ (cereal # "" /\ cereal \notin ALLOWED_CEREALES)

\* only the missing cereal is rejected
CerealRejected_anyText(cereal) == ~Truthy(cereal)

\* not cereal or cereal not in ALLOWED_CEREALES
CerealRejected(cereal) == ~Truthy(cereal) \/ cereal \notin ALLOWED_CEREALES

\* only a cereal of the allowed set is compared with the silo's
CerealMismatch_allowedOnly(s, cereal) ==
  Truthy(s.cereal) /\ cereal \in ALLOWED_CEREALES /\ cereal # s.cereal

\* s.cereal and cereal and cereal != s.cereal
CerealMismatch(s, cereal) == Truthy(s.cereal) /\ Truthy(cereal) /\ cereal # s.cereal

\* the sum computed and dropped
Loaded_dropped(s, amount) == s

\* s.balance_kg += amount
Loaded(s, amount) == [s EXCEPT !.balance_kg = @ + amount]

\* the comparison off by one
InsufficientStock_offByOne(s, amount) == s.balance_kg - amount < -1

\* s.balance_kg - amount < 0
InsufficientStock(s, amount) == s.balance_kg - amount < 0

\* the cereal released when the silo is emptied
Unloaded_release(s, amount) ==
  [s EXCEPT !.balance_kg = @ - amount,
            !.cereal = IF s.balance_kg - amount = 0 THEN None ELSE @]

\* s.balance_kg -= amount
Unloaded(s, amount) == [s EXCEPT !.balance_kg = @ - amount]

\* the operation row written although the silo row is refused
CommitMovement_split(op, silo_id, body, s, o, data) ==
  LET tbl == [silos EXCEPT ![silo_id] = s]
      log == Append(ops, o)
  IN /\ o.id <= MaxOpId
     /\ ops' = log
     /\ UNCHANGED <<sess, backend>>
     /\ IF ~balance_non_negative(tbl) \/ IntegerOverflow(tbl, log)
          THEN /\ last' = Response(op, silo_id, body, 500, MsgUnhandled, <<>>)
               /\ UNCHANGED silos
          ELSE /\ silos' = tbl
               /\ last' = Response(op, silo_id, body, 200, <<>>, data)

\* db.add(op); db.commit() of a load or unload: the silo row and the new
\* operation row are written in one transaction, or the request dies with
\* the storage error and nothing is written
CommitMovement(op, silo_id, body, s, o, data) ==
  LET tbl == [silos EXCEPT ![silo_id] = s]
      log == Append(ops, o)
  IN IF ~balance_non_negative(tbl) \/ IntegerOverflow(tbl, log)
       THEN Fail(op, silo_id, body, 500, MsgUnhandled)
     ELSE /\ o.id <= MaxOpId
          /\ silos' = tbl
          /\ ops' = log
          /\ last' = Response(op, silo_id, body, 200, <<>>, data)
          /\ UNCHANGED <<sess, backend>>

cargar(silo_id, body) ==
  LET amount == AmountOf(body)
      cereal == CerealOf(body)
  IN IF amount <= 0 THEN Fail("cargar", silo_id, body, 400, MsgAmount)
     ELSE IF silo_id \notin DOMAIN silos
       THEN Fail("cargar", silo_id, body, 404, MsgNotFound)
     ELSE LET s0 == silos[silo_id]
          IN IF IsFresh(s0) /\ CerealRejected(cereal)
               THEN Fail("cargar", silo_id, body, 400, MsgCereal)
             ELSE LET s1 == IF IsFresh(s0) THEN [s0 EXCEPT !.cereal = cereal] ELSE s0
                  IN IF CerealMismatch(s1, cereal)
                       THEN Fail("cargar", silo_id, body, 400, MsgMismatch(s1.cereal))
                     ELSE LET s2 == Loaded(s1, amount)
                          IN CommitMovement("cargar", silo_id, body, s2,
                               Operation(silo_id, "CARGA", amount),
                               [balance_kg |-> s2.balance_kg, cereal |-> s2.cereal])

\* the silo looked up before the amount is validated
descargar_lookupFirst(silo_id, body) ==
  LET amount == AmountOf(body)
  IN IF silo_id \notin DOMAIN silos
       THEN Fail("descargar", silo_id, body, 404, MsgNotFound)
     ELSE IF amount <= 0 THEN Fail("descargar", silo_id, body, 400, MsgAmount)
     ELSE LET s0 == silos[silo_id]
          IN IF InsufficientStock(s0, amount)
               THEN Fail("descargar", silo_id, body, 400, MsgStock)
             ELSE LET s1 == Unloaded(s0, amount)
                  IN CommitMovement("descargar", silo_id, body, s1,
                       Operation(silo_id, "DESCARGA", amount),
                       [balance_kg |-> s1.balance_kg])

\* the unload written without the stock test, past the check constraint
descargar_unchecked(silo_id, body) ==
  LET amount == AmountOf(body)
  IN IF amount <= 0 THEN Fail("descargar", silo_id, body, 400, MsgAmount)
     ELSE IF silo_id \notin DOMAIN silos
       THEN Fail("descargar", silo_id, body, 404, MsgNotFound)
     ELSE LET s1 == Unloaded(silos[silo_id], amount)
          IN /\ Operation(silo_id, "DESCARGA", amount).id <= MaxOpId
             /\ silos' = [silos EXCEPT ![silo_id] = s1]
             /\ ops' = Append(ops, Operation(silo_id, "DESCARGA", amount))
             /\ last' = Response("descargar", silo_id, body, 200, <<>>,
                                  [balance_kg |-> s1.balance_kg])
             /\ UNCHANGED <<sess, backend>>

descargar(silo_id, body) ==
  LET amount == AmountOf(body)
  IN IF amount <= 0 THEN Fail("descargar", silo_id, body, 400, MsgAmount)
     ELSE IF silo_id \notin DOMAIN silos
       THEN Fail("descargar", silo_id, body, 404, MsgNotFound)
     ELSE LET s0 == silos[silo_id]
          IN IF InsufficientStock(s0, amount)
               THEN Fail("descargar", silo_id, body, 400, MsgStock)
             ELSE LET s1 == Unloaded(s0, amount)
                  IN CommitMovement("descargar", silo_id, body, s1,
                       Operation(silo_id, "DESCARGA", amount),
                       [balance_kg |-> s1.balance_kg])

\* ------------------------------------------------------------------ reads
\* a nullable JSON value: <<>> is null, <<x>> is x
Null == <<>>
Some(x) == <<x>>

RECURSIVE OrderById(_)
OrderById(ids) ==
  IF ids = {} THEN <<>>
  ELSE LET i == CHOOSE m \in ids : \A x \in ids : m <= x
       IN <<i>> \o OrderById(ids \ {i})

\* db.query(Silo).order_by(Silo.id).all(), serialised
SiloList(tbl) ==
  LET ids == OrderById(DOMAIN tbl)
  IN [k \in DOMAIN ids |->
        [id |-> ids[k], name |-> tbl[ids[k]].name, cereal |-> tbl[ids[k]].cereal,
         balance_kg |-> tbl[ids[k]].balance_kg]]

list_silos ==
  /\ last' = Response("list_silos", 0, [other |-> 0], 200, <<>>, SiloList(silos))
  /\ UNCHANGED <<silos, ops, sess, backend>>

\* order_by(Operation.created_at.desc(), Operation.id.desc()): rows get
\* created_at and id in the order they are inserted, so this is id descending
RECURSIVE OrderOps(_)
OrderOps(S) ==
  IF S = {} THEN <<>>
  ELSE LET o == CHOOSE m \in S : \A x \in S : m.id >= x.id
       IN <<o>> \o OrderOps(S \ {o})

RECURSIVE Replay(_, _)
\* the balance the operations of one silo add up to
Replay(log, silo_id) ==
  IF log = <<>> THEN 0
  ELSE LET o == log[Len(log)]
           rest == Replay(SubSeq(log, 1, Len(log) - 1), silo_id)
       IN IF o.silo_id # silo_id THEN rest
          ELSE IF o.type = "CARGA" THEN rest + o.amount ELSE rest - o.amount

\* the entry reporting the balance the silo had once the operation was recorded
ResumenEntry_historic(tbl, o) ==
  [id |-> o.id, silo_id |-> o.silo_id,
   silo_name |-> IF o.silo_id \in DOMAIN tbl THEN Some(tbl[o.silo_id].name) ELSE Null,
   type |-> o.type, amount |-> o.amount,
   balance_kg_post |->
     Some(Replay(SelectSeq(ops, LAMBDA x : x.id <= o.id), o.silo_id))]

\* one entry of the summary; o.silo is the row the foreign key points at
ResumenEntry(tbl, o) ==
  [id |-> o.id, silo_id |-> o.silo_id,
   silo_name |-> IF o.silo_id \in DOMAIN tbl THEN Some(tbl[o.silo_id].name) ELSE Null,
   type |-> o.type, amount |-> o.amount,
   balance_kg_post |-> Some(tbl[o.silo_id].balance_kg)]

\* db.query(Silo).get(o.silo_id).balance_kg raises when the row is missing
\* (silo_id is never null or 0, so the "else None" arm is not taken)
ResumenRaises(tbl, log) == \E k \in DOMAIN log : log[k].silo_id \notin DOMAIN tbl

Resumen(tbl, log) ==
  LET sorted == OrderOps({log[k] : k \in DOMAIN log})
  IN [k \in DOMAIN sorted |-> ResumenEntry(tbl, sorted[k])]

resumen ==
  /\ last' = IF ResumenRaises(silos, ops)
               THEN Response("resumen", 0, [other |-> 0], 500, MsgUnhandled, <<>>)
               ELSE Response("resumen", 0, [other |-> 0], 200, <<>>, Resumen(silos, ops))
  /\ UNCHANGED <<silos, ops, sess, backend>>

SiloIds == 1..MaxId

Next ==
  \/ health
  \/ list_silos
  \/ \E body \in NameBodies : create_silo(body)
  \/ \E silo_id \in SiloIds, body \in NameBodies : rename_silo(silo_id, body)
  \/ \E silo_id \in SiloIds : delete_silo(silo_id)
  \/ \E silo_id \in SiloIds, body \in CargarBodies : cargar(silo_id, body)
  \/ \E silo_id \in SiloIds, body \in DescargarBodies : descargar(silo_id, body)
  \/ resumen

Spec == Init /\ [][Next]_vars

\* -------------------------------------------------- overlapping requests
(***************************************************************************)
(* The server runs each request in its own thread with its own session.    *)
(* A handler that queries a silo before it writes has two steps: the query *)
(* (the rows are loaded into the session) and the commit (the session's    *)
(* changes are flushed in one transaction).  Other requests can commit     *)
(* between the two.  A flush writes the columns the handler assigned, in   *)
(* rows found by primary key: UPDATE .. WHERE id, DELETE .. WHERE id.      *)
(***************************************************************************)
OverlapNameBodies == {[name |-> <<"a">>], [name |-> <<"a", "a">>]}
OverlapCreateBodies == {[name |-> <<"a">>]}
OverlapCargarBodies == {[amount |-> 1, cereal |-> "Soja"]}
OverlapDescargarBodies == {[amount |-> 1]}

\* SQLite enforces foreign keys only after PRAGMA foreign_keys=ON, which the
\* program never issues; PostgreSQL always enforces them
ForeignKeysEnforced == backend = "postgresql"

InitOverlap ==
  /\ silos = <<>>
  /\ ops = <<>>
  /\ last = Response("start", 0, [other |-> 0], 200, <<>>, <<>>)
  /\ sess = [t \in Threads |-> Idle]
  /\ backend \in Backends

\* the request of thread t is answered and its session closed
Answer(t, status, error, data) ==
  /\ last' = Response(sess[t].op, sess[t].silo_id, sess[t].body, status, error, data)
  /\ sess' = [sess EXCEPT ![t] = Idle]
  /\ UNCHANGED backend

\* s = db.query(Silo).get(silo_id) of rename_silo, and s.name = new_name
query_rename(t, silo_id, body) ==
  /\ sess[t] = Idle
  /\ NameOf(body) # <<>>
  /\ silo_id \in DOMAIN silos
  /\ sess' = [sess EXCEPT ![t] =
       [pc |-> "commit", op |-> "rename_silo", silo_id |-> silo_id, body |-> body,
        dirty |-> silos[silo_id].name # NameOf(body)]]
  /\ UNCHANGED <<silos, ops, last, backend>>

\* the commit of rename_silo without the except IntegrityError clause
commit_rename_uncaught(t) ==
  /\ sess[t] # Idle
  /\ sess[t].op = "rename_silo"
  /\ LET id == sess[t].silo_id
     IN IF ~sess[t].dirty
          THEN Answer(t, 200, <<>>, <<>>) /\ UNCHANGED <<silos, ops>>
        ELSE IF id \notin DOMAIN silos
          THEN Answer(t, 500, MsgUnhandled, <<>>) /\ UNCHANGED <<silos, ops>>
        ELSE LET tbl == [silos EXCEPT ![id].name = NameOf(sess[t].body)]
             IN IF UniqueViolated(tbl)
                  THEN Answer(t, 500, MsgUnhandled, <<>>) /\ UNCHANGED <<silos, ops>>
                ELSE /\ silos' = tbl
                     /\ Answer(t, 200, <<>>, <<>>)
                     /\ UNCHANGED ops

\* db.commit() of rename_silo
commit_rename(t) ==
  /\ sess[t] # Idle
  /\ sess[t].op = "rename_silo"
  /\ LET id == sess[t].silo_id
     IN IF ~sess[t].dirty
          THEN Answer(t, 200, <<>>, <<>>) /\ UNCHANGED <<silos, ops>>
        ELSE IF id \notin DOMAIN silos
          THEN Answer(t, 500, MsgUnhandled, <<>>) /\ UNCHANGED <<silos, ops>>
        ELSE LET tbl == [silos EXCEPT ![id].name = NameOf(sess[t].body)]
             IN IF UniqueViolated(tbl)
                  THEN Answer(t, 409, MsgDuplicate, <<>>) /\ UNCHANGED <<silos, ops>>
                ELSE /\ silos' = tbl
                     /\ Answer(t, 200, <<>>, <<>>)
                     /\ UNCHANGED ops

\* s = db.query(Silo).get(silo_id) of delete_silo, and db.delete(s), which
\* loads s.operations to delete them with the silo
query_delete(t, silo_id) ==
  /\ sess[t] = Idle
  /\ silo_id \in DOMAIN silos
  /\ sess' = [sess EXCEPT ![t] =
       [pc |-> "commit", op |-> "delete_silo", silo_id |-> silo_id,
        body |-> [other |-> 0],
        loaded |-> {ops[k].id : k \in {m \in DOMAIN ops : ops[m].silo_id = silo_id}}]]
  /\ UNCHANGED <<silos, ops, last, backend>>

\* db.commit() of delete_silo: the loaded operations and the silo are deleted
\* by id; a store that enforces the foreign key deletes the rest (ON DELETE
\* CASCADE)
commit_delete(t) ==
  /\ sess[t] # Idle
  /\ sess[t].op = "delete_silo"
  /\ LET id == sess[t].silo_id
         kept == SelectSeq(ops, LAMBDA o : o.id \notin sess[t].loaded)
     IN /\ silos' = [i \in DOMAIN silos \ {id} |-> silos[i]]
        /\ ops' = IF ForeignKeysEnforced THEN CascadeDelete(kept, id) ELSE kept
        /\ Answer(t, 200, <<>>, <<>>)

\* cargar up to db.add(op): the silo is queried and changed in the session
query_cargar(t, silo_id, body) ==
  /\ sess[t] = Idle
  /\ AmountOf(body) > 0
  /\ silo_id \in DOMAIN silos
  /\ LET s0 == silos[silo_id]
         s1 == IF IsFresh(s0) THEN [s0 EXCEPT !.cereal = CerealOf(body)] ELSE s0
     IN /\ ~(IsFresh(s0) /\ CerealRejected(CerealOf(body)))
        /\ ~CerealMismatch(s1, CerealOf(body))
        /\ sess' = [sess EXCEPT ![t] =
             [pc |-> "commit", op |-> "cargar", silo_id |-> silo_id, body |-> body,
              row |-> Loaded(s1, AmountOf(body)), type |-> "CARGA",
              cereal_set |-> IsFresh(s0)]]
  /\ UNCHANGED <<silos, ops, last, backend>>

\* descargar up to db.add(op)
query_descargar(t, silo_id, body) ==
  /\ sess[t] = Idle
  /\ AmountOf(body) > 0
  /\ silo_id \in DOMAIN silos
  /\ ~InsufficientStock(silos[silo_id], AmountOf(body))
  /\ sess' = [sess EXCEPT ![t] =
       [pc |-> "commit", op |-> "descargar", silo_id |-> silo_id, body |-> body,
        row |-> Unloaded(silos[silo_id], AmountOf(body)), type |-> "DESCARGA",
        cereal_set |-> FALSE]]
  /\ UNCHANGED <<silos, ops, last, backend>>

\* db.commit() of cargar and descargar: UPDATE silos SET balance_kg (and
\* cereal, when it was assigned) WHERE id, then INSERT the operation
commit_movement(t) ==
  /\ sess[t] # Idle
  /\ sess[t].op \in {"cargar", "descargar"}
  /\ LET id == sess[t].silo_id
         row == sess[t].row
     IN IF id \notin DOMAIN silos
          THEN Answer(t, 500, MsgUnhandled, <<>>) /\ UNCHANGED <<silos, ops>>
        ELSE LET tbl == [silos EXCEPT
                           ![id].balance_kg = row.balance_kg,
                           ![id].cereal = IF sess[t].cereal_set THEN row.cereal ELSE @]
                 o == Operation(id, sess[t].type, AmountOf(sess[t].body))
                 log == Append(ops, o)
             IN IF ~balance_non_negative(tbl) \/ IntegerOverflow(tbl, log)
                  THEN Answer(t, 500, MsgUnhandled, <<>>) /\ UNCHANGED <<silos, ops>>
                ELSE /\ o.id <= MaxOpId
                     /\ silos' = tbl
                     /\ ops' = log
                     /\ Answer(t, 200, <<>>,
                          IF sess[t].op = "cargar"
                            THEN [balance_kg |-> tbl[id].balance_kg, cereal |-> tbl[id].cereal]
                            ELSE [balance_kg |-> tbl[id].balance_kg])

\* a delete, loads and unloads overlapping
NextOverlap ==
  \/ \E body \in OverlapCreateBodies : create_silo(body)
  \/ \E t \in Threads, silo_id \in SiloIds : query_delete(t, silo_id)
  \/ \E t \in Threads : commit_delete(t)
  \/ \E t \in Threads, silo_id \in SiloIds, body \in OverlapCargarBodies :
       query_cargar(t, silo_id, body)
  \/ \E t \in Threads, silo_id \in SiloIds, body \in OverlapDescargarBodies :
       query_descargar(t, silo_id, body)
  \/ \E t \in Threads : commit_movement(t)
  \/ resumen

SpecOverlap == InitOverlap /\ [][NextOverlap]_vars

\* creates and renames overlapping
NextNames ==
  \/ \E body \in OverlapNameBodies : create_silo(body)
  \/ \E t \in Threads, silo_id \in SiloIds, body \in OverlapNameBodies :
       query_rename(t, silo_id, body)
  \/ \E t \in Threads : commit_rename(t)
  \/ \E t \in Threads, silo_id \in SiloIds : query_delete(t, silo_id)
  \/ \E t \in Threads : commit_delete(t)

SpecNames == InitOverlap /\ [][NextNames]_vars

\* loads and unloads of one silo overlapping
NextMovements ==
  \/ \E body \in OverlapCreateBodies : create_silo(body)
  \/ \E t \in Threads, silo_id \in SiloIds, body \in OverlapCargarBodies :
       query_cargar(t, silo_id, body)
  \/ \E t \in Threads, silo_id \in SiloIds, body \in OverlapDescargarBodies :
       query_descargar(t, silo_id, body)
  \/ \E t \in Threads : commit_movement(t)

SpecMovements == InitOverlap /\ [][NextMovements]_vars

\* ------------------------------------------------------------ properties
\* what the properties say about the request of a step, read from last'
Allowed4 == {"Soja", "Maiz", "Trigo", "Girasol"}
OpsOf(log, silo_id) == SelectSeq(log, LAMBDA o : o.silo_id = silo_id)
RawName(body) == IF "name" \in DOMAIN body THEN body.name ELSE <<>>

\* t is raw without its leading and trailing whitespace
IsTrimOf(t, raw) ==
  \E i \in 1..(Len(raw) + 1), j \in 0..Len(raw) :
    /\ t = SubSeq(raw, i, j)
    /\ \A k \in 1..(i - 1) : raw[k] = " "
    /\ \A k \in (j + 1)..Len(raw) : raw[k] = " "
    /\ i <= j => (raw[i] # " " /\ raw[j] # " ")

\* C1: in every reachable state every existing silo has balance_kg >= 0.
C1_BalanceNonNegative == \A i \in DOMAIN silos : silos[i].balance_kg >= 0

\* an unload larger than the balance has just been refused
C1_Witness ==
  /\ last.op = "descargar" /\ last.status = 400 /\ last.error = MsgStock
  /\ last.silo_id \in DOMAIN silos
  /\ silos[last.silo_id].balance_kg > 0
  /\ last.body.amount > silos[last.silo_id].balance_kg

\* C2: on a silo whose cereal is set, a load with a positive amount and a
\* different non-empty cereal fails with the cereal-mismatch error whatever
\* the balance, and leaves the silos and the ledger as they were.
C2_MismatchRejected ==
  [][(/\ last'.op = "cargar"
      /\ last'.silo_id \in DOMAIN silos
      /\ silos[last'.silo_id].cereal # None
      /\ AmountOf(last'.body) > 0
      /\ "cereal" \in DOMAIN last'.body
      /\ last'.body.cereal # ""
      /\ last'.body.cereal # silos[last'.silo_id].cereal)
     => (/\ last'.status = 400
         /\ last'.error = MsgMismatch(silos[last'.silo_id].cereal)
         /\ silos' = silos
         /\ ops' = ops)]_vars

\* the refused load found the silo emptied by an unload, its cereal still set
C2_Witness ==
  /\ last.op = "cargar" /\ last.status = 400
  /\ last.silo_id \in DOMAIN silos
  /\ silos[last.silo_id].cereal # None
  /\ last.error = MsgMismatch(silos[last.silo_id].cereal)
  /\ silos[last.silo_id].balance_kg = 0
  /\ \E k \in DOMAIN ops : ops[k].silo_id = last.silo_id /\ ops[k].type = "DESCARGA"

\* C3: once a silo's cereal is set, it keeps that cereal in every later state
\* in which the silo exists (there is no way back to empty and unset).
C3_CerealLockPermanent ==
  [][\A i \in DOMAIN silos \cap DOMAIN silos' :
       silos[i].cereal # None => silos'[i].cereal = silos[i].cereal]_vars

\* an unload has just emptied a silo and its cereal is still set
C3_Witness ==
  /\ last.op = "descargar" /\ last.status = 200
  /\ last.silo_id \in DOMAIN silos
  /\ silos[last.silo_id].balance_kg = 0
  /\ silos[last.silo_id].cereal \in Allowed4

\* C4: an unload of more than the balance of an existing silo fails with the
\* insufficient-stock error and leaves the silos and the ledger as they were.
C4_InsufficientStockRejected ==
  [][(/\ last'.op = "descargar"
      /\ last'.silo_id \in DOMAIN silos
      /\ AmountOf(last'.body) > silos[last'.silo_id].balance_kg)
     => (/\ last'.status = 400
         /\ last'.error = MsgStock
         /\ silos' = silos
         /\ ops' = ops)]_vars

\* an unload of 1 from a silo that was never loaded has just been refused
C4_Witness ==
  /\ last.op = "descargar" /\ last.error = MsgStock
  /\ last.silo_id \in DOMAIN silos
  /\ silos[last.silo_id].balance_kg = 0
  /\ silos[last.silo_id].cereal = None
  /\ last.body.amount = 1

\* C5: a successful load or unload changes the balance by the amount and
\* appends exactly one operation (its type, the amount, the silo) in the same
\* step; a failed load or unload, and every create, rename and delete, appends
\* none; a failed request leaves the silos and the ledger as they were.
C5_Movement(type, sign) ==
  LET id == last'.silo_id
      amount == AmountOf(last'.body)
  IN IF last'.status = 200
       THEN /\ id \in DOMAIN silos
            /\ DOMAIN silos' = DOMAIN silos
            /\ silos'[id].balance_kg = silos[id].balance_kg + sign * amount
            /\ silos'[id].balance_kg # silos[id].balance_kg
            /\ \A j \in DOMAIN silos \ {id} : silos'[j] = silos[j]
            /\ Len(ops') = Len(ops) + 1
            /\ SubSeq(ops', 1, Len(ops)) = ops
            /\ ops'[Len(ops')].type = type
            /\ ops'[Len(ops')].amount = amount
            /\ ops'[Len(ops')].silo_id = id
       ELSE silos' = silos /\ ops' = ops

C5_OneRecordPerMovement ==
  [][/\ last'.op = "cargar" => C5_Movement("CARGA", 1)
     /\ last'.op = "descargar" => C5_Movement("DESCARGA", -1)
     /\ last'.op \in {"create_silo", "rename_silo", "delete_silo"} =>
          /\ \A k \in DOMAIN ops' : \E m \in DOMAIN ops : ops'[k] = ops[m]
          /\ last'.status >= 400 => (silos' = silos /\ ops' = ops)]_vars

\* a load and an unload have both been recorded, and the last request failed
C5_Witness ==
  /\ Len(ops) = 2
  /\ ops[1].type = "CARGA" /\ ops[2].type = "DESCARGA"
  /\ last.op \in {"cargar", "descargar"} /\ last.status >= 400

\* C6: silo names are unique in every reachable state; a create whose trimmed
\* name is the name of an existing silo, and a rename whose trimmed name is
\* the name of another silo, fail with the duplicate-name error and change
\* nothing.
C6_NamesUnique ==
  [][/\ \A i, j \in DOMAIN silos' : i # j => silos'[i].name # silos'[j].name
     /\ (/\ last'.op = "create_silo"
         /\ \E i \in DOMAIN silos : IsTrimOf(silos[i].name, RawName(last'.body)))
        => (last'.status = 409 /\ last'.error = MsgDuplicate /\ silos' = silos)
     /\ (/\ last'.op = "rename_silo"
         /\ last'.silo_id \in DOMAIN silos
         /\ \E i \in DOMAIN silos \ {last'.silo_id} :
              IsTrimOf(silos[i].name, RawName(last'.body)))
        => (last'.status = 409 /\ last'.error = MsgDuplicate /\ silos' = silos)]_vars

\* a name padded with whitespace has just been refused as a duplicate while
\* two silos exist
C6_Witness ==
  /\ last.status = 409
  /\ last.op \in {"create_silo", "rename_silo"}
  /\ Len(last.body.name) > 1
  /\ last.body.name[1] = " "
  /\ Cardinality(DOMAIN silos) = 2

C8_SummaryIsCurrent ==
  [][/\ (last'.op = "resumen" /\ last'.status = 200)
        => /\ Len(last'.data) = Len(ops)
           /\ \A k \in DOMAIN last'.data :
                LET e == last'.data[k]
                IN /\ e.silo_id \in DOMAIN silos
                   /\ e.silo_name = Some(silos[e.silo_id].name)
                   /\ e.balance_kg_post = Some(silos[e.silo_id].balance_kg)
     /\ (last'.op = "rename_silo" /\ last'.status = 200)
        => \A k \in DOMAIN Resumen(silos', ops') :
             LET e == Resumen(silos', ops')[k]
             IN e.silo_id = last'.silo_id
                  => \E t \in NameInputs :
                       /\ IsTrimOf(t, RawName(last'.body))
                       /\ e.silo_name = Some(t)
     /\ (last'.op \in {"cargar", "descargar"} /\ last'.status = 200)
        => \A k \in DOMAIN Resumen(silos', ops') :
             LET e == Resumen(silos', ops')[k]
             IN e.silo_id = last'.silo_id
                  => e.balance_kg_post = Some(last'.data.balance_kg)]_vars

\* the summary has two entries of one silo, and the entry of the load shows
\* the balance 0 the silo has now
C8_Witness ==
  /\ last.op = "resumen" /\ last.status = 200
  /\ Len(last.data) = 2
  /\ last.data[1].silo_id = last.data[2].silo_id
  /\ \E k \in DOMAIN last.data :
       last.data[k].type = "CARGA" /\ last.data[k].balance_kg_post = Some(0)

\* C10: a load with a positive amount into a fresh silo whose cereal is
\* omitted or empty fails with the must-select-cereal error and changes
\* nothing; a silo leaves the fresh state only by a successful load whose
\* cereal is one of the four allowed types.
C10_FreshLoadNeedsCereal ==
  [][/\ (/\ last'.op = "cargar"
         /\ last'.silo_id \in DOMAIN silos
         /\ silos[last'.silo_id].balance_kg = 0
         /\ silos[last'.silo_id].cereal = None
         /\ AmountOf(last'.body) > 0
         /\ ("cereal" \in DOMAIN last'.body => last'.body.cereal = ""))
        => (/\ last'.status = 400 /\ last'.error = MsgCereal
            /\ silos' = silos /\ ops' = ops)
     /\ \A i \in DOMAIN silos \cap DOMAIN silos' :
          (/\ silos[i].balance_kg = 0 /\ silos[i].cereal = None
           /\ ~(silos'[i].balance_kg = 0 /\ silos'[i].cereal = None))
          => (/\ last'.op = "cargar" /\ last'.silo_id = i /\ last'.status = 200
              /\ "cereal" \in DOMAIN last'.body
              /\ last'.body.cereal \in Allowed4
              /\ silos'[i].cereal = last'.body.cereal)]_vars

\* a load without a cereal into a fresh silo has just been refused
C10_Witness ==
  /\ last.op = "cargar" /\ last.status = 400 /\ last.error = MsgCereal
  /\ last.silo_id \in DOMAIN silos
  /\ silos[last.silo_id].cereal = None
  /\ "cereal" \notin DOMAIN last.body
  /\ last.body.amount > 0

\* C9: when the ledger holds an operation whose silo does not exist, the
\* summary still answers with the whole list, and that entry's silo name and
\* balance are null.
C9_OrphanEntryIsNull ==
  (/\ last.op = "resumen"
   /\ \E k \in DOMAIN ops : ops[k].silo_id \notin DOMAIN silos)
  => /\ last.status = 200
     /\ Len(last.data) = Len(ops)
     /\ \A k \in DOMAIN last.data :
          last.data[k].silo_id \notin DOMAIN silos
            => /\ last.data[k].silo_name = Null
               /\ last.data[k].balance_kg_post = Null

\* C11 (as stated): a load with a positive amount on an existing silo whose
\* cereal argument is outside the allowed set fails with the invalid-input
\* (must-select-cereal) error in every silo state.
C11_InvalidCerealIsInvalidInput ==
  [][(/\ last'.op = "cargar"
      /\ last'.silo_id \in DOMAIN silos
      /\ AmountOf(last'.body) > 0
      /\ "cereal" \in DOMAIN last'.body
      /\ last'.body.cereal # ""
      /\ last'.body.cereal \notin Allowed4)
     => (last'.status = 400 /\ last'.error = MsgCereal)]_vars

\* C11 (amended): such a load always fails and changes nothing: with the
\* must-select-cereal error when the silo is fresh, with the cereal-mismatch
\* error when the silo has a cereal (stocked or emptied).
C11_InvalidCerealRejected ==
  [][(/\ last'.op = "cargar"
      /\ last'.silo_id \in DOMAIN silos
      /\ AmountOf(last'.body) > 0
      /\ "cereal" \in DOMAIN last'.body
      /\ last'.body.cereal # ""
      /\ last'.body.cereal \notin Allowed4)
     => (/\ last'.status = 400
         /\ silos' = silos
         /\ ops' = ops
         /\ last'.error = IF silos[last'.silo_id].cereal = None
                            THEN MsgCereal
                            ELSE MsgMismatch(silos[last'.silo_id].cereal))]_vars

\* a cereal outside the allowed set has just been refused on a silo that was
\* loaded and emptied
C11_Witness ==
  /\ last.op = "cargar" /\ last.status = 400
  /\ AmountOf(last.body) > 0
  /\ "cereal" \in DOMAIN last.body
  /\ last.body.cereal = "Avena"
  /\ last.silo_id \in DOMAIN silos
  /\ silos[last.silo_id].cereal \in Allowed4
  /\ silos[last.silo_id].balance_kg = 0
  /\ last.error = MsgMismatch(silos[last.silo_id].cereal)

\* the error kind a returned message belongs to
ErrorKind(error) ==
  IF error \in {MsgNameRequired, MsgNewNameRequired, MsgAmount, MsgCereal}
    THEN "InvalidInput"
  ELSE IF error = MsgNotFound THEN "NotFound"
  ELSE IF error = MsgDuplicate THEN "DuplicateName"
  ELSE IF error = MsgStock THEN "InsufficientStock"
  ELSE IF \E c \in Allowed4 : error = MsgMismatch(c) THEN "CerealMismatch"
  ELSE "none"

ErrorKinds ==
  {"InvalidInput", "NotFound", "DuplicateName", "CerealMismatch", "InsufficientStock"}

\* C12 (as stated): two answers of different error kinds never carry the same
\* status.
C12_DistinctStatusPerKind ==
  [][(/\ ErrorKind(last.error) \in ErrorKinds
      /\ ErrorKind(last'.error) \in ErrorKinds
      /\ ErrorKind(last.error) # ErrorKind(last'.error))
     => last.status # last'.status]_vars

\* C12 (amended): every error kind has its own message and a fixed status:
\* 400 for invalid input, cereal mismatch and insufficient stock, 404 for
\* not found, 409 for duplicate name; an answer without an error message has
\* a 2xx status.
C12_StatusOfKind ==
  /\ ErrorKind(last.error) \in {"InvalidInput", "CerealMismatch", "InsufficientStock"}
       => last.status = 400
  /\ ErrorKind(last.error) = "NotFound" => last.status = 404
  /\ ErrorKind(last.error) = "DuplicateName" => last.status = 409
  /\ last.error = <<>> <=> last.status \in {200, 201}

\* an unload has just been refused for lack of stock, with the status of an
\* invalid input
C12_Witness ==
  /\ last.op = "descargar"
  /\ ErrorKind(last.error) = "InsufficientStock"
  /\ last.status = 400

\* C13: when requests race on a name, the names stay unique, and a create or
\* rename whose write meets a name another silo holds by then is answered
\* with the duplicate-name error, not with a raw storage error, and writes
\* nothing.
C13_NameRaceLoserGetsDuplicate ==
  [][/\ \A i, j \in DOMAIN silos' : i # j => silos'[i].name # silos'[j].name
     /\ (/\ last'.op = "create_silo"
         /\ sess' = sess
         /\ \E i \in DOMAIN silos : IsTrimOf(silos[i].name, RawName(last'.body)))
        => (last'.status = 409 /\ last'.error = MsgDuplicate /\ silos' = silos)
     /\ \A t \in Threads :
          (/\ sess[t] # Idle /\ sess'[t] = Idle
           /\ sess[t].op = "rename_silo"
           /\ sess[t].dirty
           /\ sess[t].silo_id \in DOMAIN silos
           /\ \E i \in DOMAIN silos \ {sess[t].silo_id} :
                IsTrimOf(silos[i].name, RawName(sess[t].body)))
          => (last'.status = 409 /\ last'.error = MsgDuplicate /\ silos' = silos)]_vars

\* a rename has just been refused as a duplicate while another request is
\* between its query and its commit
C13_Witness ==
  /\ last.op = "rename_silo" /\ last.status = 409
  /\ \E t \in Threads : sess[t] # Idle
  /\ Cardinality(DOMAIN silos) = 2

\* C14: a load with a positive amount on an existing silo succeeds whenever
\* the silo is fresh and the cereal is an allowed type, or the silo has a
\* cereal and the argument is omitted, empty or equal to it; the balance
\* becomes the old balance plus the amount, the cereal is the supplied one
\* (fresh) or unchanged, and the answer carries the stored balance and cereal.
C14_LoadSucceeds ==
  [][(/\ last'.op = "cargar"
      /\ last'.silo_id \in DOMAIN silos
      /\ AmountOf(last'.body) > 0
      /\ \/ /\ silos[last'.silo_id].cereal = None
            /\ silos[last'.silo_id].balance_kg = 0
            /\ CerealOf(last'.body) \in Allowed4
         \/ /\ silos[last'.silo_id].cereal # None
            /\ CerealOf(last'.body) \in {None, "", silos[last'.silo_id].cereal})
     => (/\ last'.status = 200
         /\ silos'[last'.silo_id].balance_kg =
              silos[last'.silo_id].balance_kg + AmountOf(last'.body)
         /\ silos'[last'.silo_id].cereal =
              IF silos[last'.silo_id].cereal = None
                THEN CerealOf(last'.body) ELSE silos[last'.silo_id].cereal
         /\ last'.data.balance_kg = silos'[last'.silo_id].balance_kg
         /\ last'.data.cereal = silos'[last'.silo_id].cereal)]_vars

\* C15: a load or unload with amount <= 0 fails with the amount error whether
\* or not the silo exists; with a positive amount on an absent id it fails
\* with not-found; the cereal and stock errors are answered only for a
\* positive amount on an existing silo.
C15_CheckOrder ==
  [][last'.op \in {"cargar", "descargar"} =>
       /\ AmountOf(last'.body) <= 0
            => (last'.status = 400 /\ last'.error = MsgAmount
                /\ silos' = silos /\ ops' = ops)
       /\ (AmountOf(last'.body) > 0 /\ last'.silo_id \notin DOMAIN silos)
            => (last'.status = 404 /\ last'.error = MsgNotFound
                /\ silos' = silos /\ ops' = ops)
       /\ ErrorKind(last'.error) \in {"CerealMismatch", "InsufficientStock"}
            \/ last'.error = MsgCereal
            => (AmountOf(last'.body) > 0 /\ last'.silo_id \in DOMAIN silos)]_vars

\* an unload of amount 0 on an id that does not exist has just been answered
\* with the amount error
C15_Witness ==
  /\ last.op = "descargar"
  /\ AmountOf(last.body) <= 0
  /\ last.silo_id \notin DOMAIN silos
  /\ last.status = 400 /\ last.error = MsgAmount

\* C16 (as stated): a rename of an id that does not exist fails with
\* not-found for every new name, the empty and the whitespace-only included.
C16_AbsentIdIsNotFound ==
  [][(last'.op = "rename_silo" /\ last'.silo_id \notin DOMAIN silos)
     => (last'.status = 404 /\ last'.error = MsgNotFound)]_vars

\* C16 (amended): a rename whose new name is empty after trimming fails with
\* the name-required error whether or not the id exists; with a non-empty
\* name an absent id fails with not-found; both change nothing.  A rename of
\* an existing silo changes nothing but that silo's name, and renaming a silo
\* to its own name succeeds.
C16_RenameChangesNameOnly ==
  [][last'.op = "rename_silo" =>
       LET id == last'.silo_id
           raw == RawName(last'.body)
       IN /\ IsTrimOf(<<>>, raw)
               => (/\ last'.status = 400 /\ last'.error = MsgNewNameRequired
                   /\ silos' = silos /\ ops' = ops)
          /\ (~IsTrimOf(<<>>, raw) /\ id \notin DOMAIN silos)
               => (/\ last'.status = 404 /\ last'.error = MsgNotFound
                   /\ silos' = silos /\ ops' = ops)
          /\ id \in DOMAIN silos
               => /\ ops' = ops
                  /\ DOMAIN silos' = DOMAIN silos
                  /\ \A j \in DOMAIN silos \ {id} : silos'[j] = silos[j]
                  /\ silos'[id].cereal = silos[id].cereal
                  /\ silos'[id].balance_kg = silos[id].balance_kg
                  /\ last'.status = 200 => IsTrimOf(silos'[id].name, raw)
                  /\ last'.status # 200 => silos'[id].name = silos[id].name
                  /\ IsTrimOf(silos[id].name, raw) => last'.status = 200]_vars

\* a silo with stock and an operation has just been renamed
C16_Witness ==
  /\ last.op = "rename_silo" /\ last.status = 200
  /\ last.silo_id \in DOMAIN silos
  /\ silos[last.silo_id].balance_kg > 0
  /\ silos[last.silo_id].name = <<"a", "a">>
  /\ Len(OpsOf(ops, last.silo_id)) > 0

\* C17: with requests executed one at a time, every silo's balance is the sum
\* of its recorded loads minus the sum of its recorded unloads, and every
\* recorded amount is positive.
C17_LedgerReplay ==
  /\ \A i \in DOMAIN silos : silos[i].balance_kg = Replay(ops, i)
  /\ \A k \in DOMAIN ops : ops[k].amount > 0

\* a silo holds 1 after a load of 2 and an unload of 1
C17_Witness ==
  /\ Len(ops) = 2
  /\ ops[1].type = "CARGA" /\ ops[1].amount = 2
  /\ ops[2].type = "DESCARGA" /\ ops[2].amount = 1
  /\ ops[1].silo_id = ops[2].silo_id
  /\ ops[1].silo_id \in DOMAIN silos
  /\ silos[ops[1].silo_id].balance_kg = 1

\* C18: when loads and unloads of one silo overlap, each committing the
\* balance it computed from what it read, the committed balance is still the
\* sum of the recorded loads minus the sum of the recorded unloads.
C18_NoLostUpdate ==
  \A i \in DOMAIN silos : silos[i].balance_kg = Replay(ops, i)

====
